---- MODULE Spec2Model ----
\* Model of clap-derive's attribute resolution (src/derives/attrs.rs):
\* Attrs::new, push_str_method, push_attrs, push_doc_comment, from_struct,
\* ty_from_field, from_field, set_kind and has_method.
\*
\* Rust strings are modelled as sequences of one-character strings, so that
\* trimming, splitting, joining and case conversion are computed, not assumed.
\* Identifiers (method names, parser kinds) are atomic TLA+ strings.
EXTENDS Integers, Sequences, FiniteSets, TLC

VARIABLES res, pc, level, env, docs, applied, field_ty, shape, err

vars == <<res, pc, level, env, docs, applied, field_ty, shape, err>>

----------------------------------------------------------------------------
\* Bounds of the model.

\* Number of #[clap(...)] directives one struct or field carries.
MaxAttrs == 2

\* Number of raw doc-comment lines of the reflow specification.
MaxDocLines == 3

\* Nesting depth of the declared types of the classification specification.
MaxTypeDepth == 4

----------------------------------------------------------------------------
\* Characters and strings.

LowerChars ==
    <<"a","b","c","d","e","f","g","h","i","j","k","l","m",
      "n","o","p","q","r","s","t","u","v","w","x","y","z">>

UpperChars ==
    <<"A","B","C","D","E","F","G","H","I","J","K","L","M",
      "N","O","P","Q","R","S","T","U","V","W","X","Y","Z">>

DigitChars == <<"0","1","2","3","4","5","6","7","8","9">>

Range(s) == {s[i] : i \in DOMAIN s}

IsLower(c) == c \in Range(LowerChars)

IsUpper(c) == c \in Range(UpperChars)

IsAlphanumeric(c) == IsLower(c) \/ IsUpper(c) \/ c \in Range(DigitChars)

IsWhitespace(c) == c \in {" ", "\n", "\t", "\r"}

ToUpperChar(c) ==
    IF IsLower(c)
    THEN UpperChars[CHOOSE i \in DOMAIN LowerChars : LowerChars[i] = c]
    ELSE c

ToLowerChar(c) ==
    IF IsUpper(c)
    THEN LowerChars[CHOOSE i \in DOMAIN UpperChars : UpperChars[i] = c]
    ELSE c

ToLowercase(s) == [i \in DOMAIN s |-> ToLowerChar(s[i])]

ToUppercase(s) == [i \in DOMAIN s |-> ToUpperChar(s[i])]

\* heck's capitalize: first character upper case, the rest lower case.
Capitalize(s) ==
    [i \in DOMAIN s |-> IF i = 1 THEN ToUpperChar(s[i]) ELSE ToLowerChar(s[i])]

Slice(s, a, b) == IF a > b THEN <<>> ELSE SubSeq(s, a, b)

\* str::trim_start / str::trim_end / str::trim on whitespace.
RECURSIVE TrimStart(_)
TrimStart(s) ==
    IF s # <<>> /\ IsWhitespace(Head(s)) THEN TrimStart(Tail(s)) ELSE s

RECURSIVE TrimEnd(_)
TrimEnd(s) ==
    IF s # <<>> /\ IsWhitespace(s[Len(s)])
    THEN TrimEnd(Slice(s, 1, Len(s) - 1))
    ELSE s

Trim(s) == TrimEnd(TrimStart(s))

StartsWith(s, p) == Len(p) <= Len(s) /\ Slice(s, 1, Len(p)) = p

EndsWith(s, p) == Len(p) <= Len(s) /\ Slice(s, Len(s) - Len(p) + 1, Len(s)) = p

\* str::trim_start_matches(pat) / str::trim_end_matches(pat): the pattern is
\* removed repeatedly.
RECURSIVE TrimStartMatches(_, _)
TrimStartMatches(s, p) ==
    IF p # <<>> /\ StartsWith(s, p)
    THEN TrimStartMatches(Slice(s, Len(p) + 1, Len(s)), p)
    ELSE s

RECURSIVE TrimEndMatches(_, _)
TrimEndMatches(s, p) ==
    IF p # <<>> /\ EndsWith(s, p)
    THEN TrimEndMatches(Slice(s, 1, Len(s) - Len(p)), p)
    ELSE s

\* [String]::join(sep).
RECURSIVE Join(_, _)
Join(ss, sep) ==
    IF ss = <<>> THEN <<>>
    ELSE IF Len(ss) = 1 THEN ss[1]
    ELSE ss[1] \o sep \o Join(Tail(ss), sep)

\* str::split(c): the pieces between occurrences of c, empty pieces kept.
RECURSIVE SplitFrom(_, _, _, _)
SplitFrom(s, c, i, cur) ==
    IF i > Len(s) THEN <<cur>>
    ELSE IF s[i] = c THEN <<cur>> \o SplitFrom(s, c, i + 1, <<>>)
    ELSE SplitFrom(s, c, i + 1, Append(cur, s[i]))

Split(s, c) == SplitFrom(s, c, 1, <<>>)

\* str::replace(from, to) for a one-character pattern.
RECURSIVE Replace(_, _, _)
Replace(s, from, to) ==
    IF s = <<>> THEN <<>>
    ELSE (IF Head(s) = from THEN to ELSE <<Head(s)>>) \o Replace(Tail(s), from, to)

----------------------------------------------------------------------------
\* Casing (heck's case conversions, as called by CasingStyle::translate).

\* heck splits the input on every non-alphanumeric character ...
RECURSIVE SegmentsFrom(_, _, _)
SegmentsFrom(s, i, cur) ==
    IF i > Len(s) THEN <<cur>>
    ELSE IF ~IsAlphanumeric(s[i]) THEN <<cur>> \o SegmentsFrom(s, i + 1, <<>>)
    ELSE SegmentsFrom(s, i + 1, Append(cur, s[i]))

\* ... and each piece at case boundaries: after a lower-case character that is
\* followed by an upper-case one ("fooBar" -> foo|Bar), and before the last
\* upper-case character of a run that is followed by a lower-case one
\* ("ABc" -> A|Bc). mode is "Boundary", "Lowercase" or "Uppercase".
RECURSIVE ScanWord(_, _, _, _)
ScanWord(w, i, init, mode) ==
    IF i > Len(w) THEN <<>>
    ELSE IF i = Len(w) THEN <<Slice(w, init, Len(w))>>
    ELSE
        LET c == w[i]
            next == w[i + 1]
            next_mode == IF IsLower(c) THEN "Lowercase"
                         ELSE IF IsUpper(c) THEN "Uppercase"
                         ELSE mode
        IN  IF next_mode = "Lowercase" /\ IsUpper(next)
            THEN <<Slice(w, init, i)>> \o ScanWord(w, i + 1, i + 1, "Boundary")
            ELSE IF mode = "Uppercase" /\ IsUpper(c) /\ IsLower(next)
            THEN <<Slice(w, init, i - 1)>> \o ScanWord(w, i + 1, i, "Boundary")
            ELSE ScanWord(w, i + 1, init, next_mode)

RECURSIVE WordsOfSegments(_)
WordsOfSegments(segs) ==
    IF segs = <<>> THEN <<>>
    ELSE ScanWord(Head(segs), 1, 1, "Boundary") \o WordsOfSegments(Tail(segs))

Words(s) == WordsOfSegments(SegmentsFrom(s, 1, <<>>))

ToKebabCase(s) ==
    LET ws == Words(s)
    IN  Join([i \in DOMAIN ws |-> ToLowercase(ws[i])], <<"-">>)

ToSnakeCase(s) ==
    LET ws == Words(s)
    IN  Join([i \in DOMAIN ws |-> ToLowercase(ws[i])], <<"_">>)

ToShoutySnakeCase(s) ==
    LET ws == Words(s)
    IN  Join([i \in DOMAIN ws |-> ToUppercase(ws[i])], <<"_">>)

\* heck's CamelCase is what CasingStyle calls Pascal.
ToCamelCase(s) ==
    LET ws == Words(s)
    IN  Join([i \in DOMAIN ws |-> Capitalize(ws[i])], <<>>)

\* heck's mixedCase is what CasingStyle calls Camel.
ToMixedCase(s) ==
    LET ws == Words(s)
    IN  Join([i \in DOMAIN ws |->
                IF i = 1 THEN ToLowercase(ws[i]) ELSE Capitalize(ws[i])], <<>>)

CasingStyles == {"Camel", "Kebab", "Pascal", "ScreamingSnake", "Snake", "Verbatim"}

DEFAULT_CASING == "Kebab"

\* CasingStyle::translate
Translate(casing, input) ==
    CASE casing = "Pascal"         -> ToCamelCase(input)
      [] casing = "Kebab"          -> ToKebabCase(input)
      [] casing = "Camel"          -> ToMixedCase(input)
      [] casing = "ScreamingSnake" -> ToShoutySnakeCase(input)
      [] casing = "Snake"          -> ToSnakeCase(input)
      [] casing = "Verbatim"       -> input

\* The style names CasingStyle::from_str matches, as strings.
StyleNames ==
    <<  <<"Camel",  <<"c","a","m","e","l">> >>,
        <<"Kebab",  <<"k","e","b","a","b">> >>,
        <<"Pascal", <<"p","a","s","c","a","l">> >>,
        <<"ScreamingSnake",
                    <<"s","c","r","e","a","m","i","n","g","s","n","a","k","e">> >>,
        <<"Snake",  <<"s","n","a","k","e">> >>,
        <<"Verbatim", <<"v","e","r","b","a","t","i","m">> >>  >>

\* <CasingStyle as FromStr>::from_str: the style, or "Err".
CasingFromStr(lit) ==
    LET name == ToLowercase(ToCamelCase(lit))
        hit == {i \in DOMAIN StyleNames :
                    \/ name = StyleNames[i][2]
                    \/ name = StyleNames[i][2] \o <<"c","a","s","e">>}
    IN  IF hit = {} THEN "Err" ELSE StyleNames[CHOOSE i \in hit : TRUE][1]

\* <Parser as FromStr>::from_str: the parser kind, or "Err".
ParserFromStr(s) ==
    CASE s = "from_str"         -> "FromStr"
      [] s = "try_from_str"     -> "TryFromStr"
      [] s = "from_os_str"      -> "FromOsStr"
      [] s = "try_from_os_str"  -> "TryFromOsStr"
      [] s = "from_occurrences" -> "FromOccurrences"
      [] OTHER                  -> "Err"

----------------------------------------------------------------------------
\* The attribute model (struct Attrs) and its methods.

\* Kind
Arg(ty) == [tag |-> "Arg", ty |-> ty]

Subcommand(ty) == [tag |-> "Subcommand", ty |-> ty]

FlattenStruct == [tag |-> "FlattenStruct", ty |-> "-"]

\* Token streams: quote!(#arg) of a &str is a string literal, of an expression
\* or of call arguments the tokens as written.
StrTokens(s) == [form |-> "str", text |-> s]

ExprTokens(e) == [form |-> "expr", text |-> e]

\* struct Method
Method(name, args) == [name |-> name, args |-> args]

\* What a method returns: the model it leaves, and whether it panicked.
Ok(self) == [ok |-> TRUE, self |-> self, msg |-> "-"]

Panic(self, msg) == [ok |-> FALSE, self |-> self, msg |-> msg]

\* Attrs::new
New(name, casing) ==
    [ name              |-> name,
      cased_name        |-> Translate(casing, name),
      casing            |-> casing,
      methods           |-> <<>>,
      parser            |-> <<"TryFromStr", "::std::str::FromStr::from_str">>,
      has_custom_parser |-> FALSE,
      kind              |-> Arg("Other") ]

\* push_str_method whose cancellation filter is inverted: it keeps the entries
\* of the cancelled name and drops the others.
PushStrMethodKeep(self, name, arg) ==
    IF name \in {"about", "version", "author"} /\ arg = <<>>
    THEN [self EXCEPT !.methods = SelectSeq(self.methods, LAMBDA m : m.name = name)]
    ELSE IF name = "name"
    THEN [self EXCEPT !.name = arg,
                      !.cased_name = Translate(self.casing, arg)]
    ELSE [self EXCEPT !.methods = Append(self.methods, Method(name, StrTokens(arg)))]

\* push_str_method that replaces: a new about/version/author entry first drops
\* the earlier entries of its name.
PushStrMethodReplace(self, name, arg) ==
    IF name \in {"about", "version", "author"} /\ arg = <<>>
    THEN [self EXCEPT !.methods = SelectSeq(self.methods, LAMBDA m : m.name # name)]
    ELSE IF name = "name"
    THEN [self EXCEPT !.name = arg,
                      !.cased_name = Translate(self.casing, arg)]
    ELSE IF name \in {"about", "version", "author"}
    THEN [self EXCEPT !.methods =
            Append(SelectSeq(self.methods, LAMBDA m : m.name # name),
                   Method(name, StrTokens(arg)))]
    ELSE [self EXCEPT !.methods = Append(self.methods, Method(name, StrTokens(arg)))]

\* push_str_method whose name arm forgets to re-derive cased_name.
PushStrMethodStale(self, name, arg) ==
    IF name \in {"about", "version", "author"} /\ arg = <<>>
    THEN [self EXCEPT !.methods = SelectSeq(self.methods, LAMBDA m : m.name # name)]
    ELSE IF name = "name"
    THEN [self EXCEPT !.name = arg]
    ELSE [self EXCEPT !.methods = Append(self.methods, Method(name, StrTokens(arg)))]

\* Attrs::push_str_method
PushStrMethod(self, name, arg) ==
    IF name \in {"about", "version", "author"} /\ arg = <<>>
    THEN [self EXCEPT !.methods = SelectSeq(self.methods, LAMBDA m : m.name # name)]
    ELSE IF name = "name"
    THEN [self EXCEPT !.name = arg,
                      !.cased_name = Translate(self.casing, arg)]
    ELSE [self EXCEPT !.methods = Append(self.methods, Method(name, StrTokens(arg)))]

\* set_kind without its guard: a later kind directive overwrites the kind.
SetKindOverwrite(self, kind) == Ok([self EXCEPT !.kind = kind])

\* Attrs::set_kind
SetKind(self, kind) ==
    IF self.kind.tag = "Arg"
    THEN Ok([self EXCEPT !.kind = kind])
    ELSE Panic(self, "subcommands cannot be flattened")

\* Attrs::has_method
HasMethod(self, method) == \E i \in DOMAIN self.methods : self.methods[i].name = method

\* One arm of push_attrs' match for each ClapAttr the annotation parser yields.
\* The Short arm taking the name as written.
PushShortRawName(self) == Ok(PushStrMethod(self, "short", self.name))

PushShort(self) == Ok(PushStrMethod(self, "short", self.cased_name))

PushLong(self) == Ok(PushStrMethod(self, "long", self.cased_name))

PushSubcommand(self) == SetKind(self, Subcommand("Other"))

PushFlatten(self) == SetKind(self, FlattenStruct)

PushNameLitStr(self, name, lit) == Ok(PushStrMethod(self, name, lit))

\* The NameExpr arm treating its expression as a string literal.
PushNameExprAsLitStr(self, name, expr) == Ok(PushStrMethod(self, name, expr))

PushNameExpr(self, name, expr) ==
    Ok([self EXCEPT !.methods = Append(self.methods, Method(name, ExprTokens(expr)))])

PushMethodCall(self, name, args) ==
    Ok([self EXCEPT !.methods = Append(self.methods, Method(name, ExprTokens(args)))])

\* The RenameAll arm casing the cased name again.
PushRenameAllCompose(self, casing_lit) ==
    LET casing == CasingFromStr(casing_lit)
    IN  IF casing = "Err"
        THEN Panic(self, "unsupported casing")
        ELSE Ok([self EXCEPT !.casing = casing,
                             !.cased_name = Translate(casing, self.cased_name)])

PushRenameAll(self, casing_lit) ==
    LET casing == CasingFromStr(casing_lit)
    IN  IF casing = "Err"
        THEN Panic(self, "unsupported casing")
        ELSE Ok([self EXCEPT !.casing = casing,
                             !.cased_name = Translate(casing, self.name)])

\* The Parse arm keeping the parser of the first parse directive.
PushParseFirstWins(self, kind, parse_func) ==
    LET marked == [self EXCEPT !.has_custom_parser = TRUE]
        parser == ParserFromStr(kind)
        keep(function) ==
            IF self.has_custom_parser THEN marked
            ELSE [marked EXCEPT !.parser = <<parser, function>>]
    IN  IF parser = "Err"
        THEN Panic(marked, "unsupported parser")
        ELSE IF parse_func.form = "None"
        THEN CASE parser \in {"FromStr", "FromOsStr"} ->
                    Ok(keep("::std::convert::From::from"))
               [] parser = "TryFromStr" ->
                    Ok(keep("::std::str::FromStr::from_str"))
               [] parser = "TryFromOsStr" ->
                    Panic(marked, "cannot omit parser function name with try_from_os_str")
               [] parser = "FromOccurrences" ->
                    Ok(keep("{ |v| v as _ }"))
        ELSE IF parse_func.form = "Path"
        THEN Ok(keep(parse_func.text))
        ELSE Panic(marked, "parse argument must be a function path")

\* The Parse arm giving try_from_os_str a default function as well.
PushParseOsStrDefault(self, kind, parse_func) ==
    LET marked == [self EXCEPT !.has_custom_parser = TRUE]
        parser == ParserFromStr(kind)
    IN  IF parser = "Err"
        THEN Panic(marked, "unsupported parser")
        ELSE IF parse_func.form = "None"
        THEN CASE parser \in {"FromStr", "FromOsStr", "TryFromOsStr"} ->
                    Ok([marked EXCEPT !.parser = <<parser, "::std::convert::From::from">>])
               [] parser = "TryFromStr" ->
                    Ok([marked EXCEPT !.parser = <<parser, "::std::str::FromStr::from_str">>])
               [] parser = "FromOccurrences" ->
                    Ok([marked EXCEPT !.parser = <<parser, "{ |v| v as _ }">>])
        ELSE IF parse_func.form = "Path"
        THEN Ok([marked EXCEPT !.parser = <<parser, parse_func.text>>])
        ELSE Panic(marked, "parse argument must be a function path")

\* parse_func is [form |-> "None"], or an expression: a path or anything else.
PushParse(self, kind, parse_func) ==
    LET marked == [self EXCEPT !.has_custom_parser = TRUE]
        parser == ParserFromStr(kind)
    IN  IF parser = "Err"
        THEN Panic(marked, "unsupported parser")
        ELSE IF parse_func.form = "None"
        THEN CASE parser \in {"FromStr", "FromOsStr"} ->
                    Ok([marked EXCEPT !.parser = <<parser, "::std::convert::From::from">>])
               [] parser = "TryFromStr" ->
                    Ok([marked EXCEPT !.parser = <<parser, "::std::str::FromStr::from_str">>])
               [] parser = "TryFromOsStr" ->
                    Panic(marked, "cannot omit parser function name with try_from_os_str")
               [] parser = "FromOccurrences" ->
                    Ok([marked EXCEPT !.parser = <<parser, "{ |v| v as _ }">>])
        ELSE IF parse_func.form = "Path"
        THEN Ok([marked EXCEPT !.parser = <<parser, parse_func.text>>])
        ELSE Panic(marked, "parse argument must be a function path")

\* push_doc_comment, the text of one #[doc = "..."] value.
DocText(value) ==
    Trim(TrimEndMatches(
            TrimStartMatches(
              TrimStartMatches(
                TrimStartMatches(
                  TrimStartMatches(value, <<"/","/","!">>),
                  <<"/","/","/">>),
                <<"/","*","!">>),
              <<"/","*","*">>),
            <<"*","/">>))

ParagraphBreak == <<"\n", "\n">>

\* push_doc_comment, the collected doc_comments.
DocComments(raw) ==
    [i \in DOMAIN raw |->
        IF DocText(raw[i]) = <<>> THEN ParagraphBreak ELSE DocText(raw[i])]

\* push_doc_comment, merged_lines.
MergedLines(doc_comments) ==
    LET lines == Split(Join(doc_comments, <<" ">>), "\n")
    IN  Join([i \in DOMAIN lines |-> Trim(lines[i])], <<"\n">>)

\* The split decision with `>= 2` for `> 2`.
ExpectedDocCommentSplitAtTwo(doc_comments) ==
    IF Len(doc_comments) >= 2
    THEN doc_comments[2] = ParagraphBreak
    ELSE FALSE

\* push_doc_comment, expected_doc_comment_split.
ExpectedDocCommentSplit(doc_comments) ==
    IF Len(doc_comments) >= 2
    THEN Len(doc_comments) > 2 /\ doc_comments[2] = ParagraphBreak
    ELSE FALSE

\* push_doc_comment, short_arg.
ShortArg(doc_comments) ==
    IF doc_comments = <<>> THEN <<>>
    ELSE TrimEndMatches(Trim(doc_comments[1]), <<".">>)

\* The reflow emitting nothing for fewer than two lines.
PushDocCommentFromTwo(self, raw, name) ==
    LET doc_comments == DocComments(raw)
        merged_lines == MergedLines(doc_comments)
    IN  IF Len(doc_comments) < 2 THEN self
        ELSE IF ExpectedDocCommentSplit(doc_comments)
        THEN [self EXCEPT !.methods =
                self.methods \o
                << Method("long_" \o name, StrTokens(merged_lines)),
                   Method(name, StrTokens(ShortArg(doc_comments))) >>]
        ELSE [self EXCEPT !.methods =
                Append(self.methods, Method(name, StrTokens(merged_lines)))]

\* Attrs::push_doc_comment; raw holds the values of the #[doc = "..."] attributes.
PushDocComment(self, raw, name) ==
    LET doc_comments == DocComments(raw)
        merged_lines == MergedLines(doc_comments)
    IN  IF doc_comments = <<>> THEN self
        ELSE IF ExpectedDocCommentSplit(doc_comments)
        THEN [self EXCEPT !.methods =
                self.methods \o
                << Method("long_" \o name, StrTokens(merged_lines)),
                   Method(name, StrTokens(ShortArg(doc_comments))) >>]
        ELSE [self EXCEPT !.methods =
                Append(self.methods, Method(name, StrTokens(merged_lines)))]

\* An environment variable as env::var(..).ok() sees it.
Unset == [set |-> FALSE, val |-> <<>>]

Var(val) == [set |-> TRUE, val |-> val]

\* The environment pass with the two variables in the other order.
InjectEnvAuthorFirst(self, e) ==
    LET with_author ==
            IF e.author.set /\ e.author.val # <<>>
            THEN PushStrMethod(self, "author", Replace(e.author.val, ":", <<",", " ">>))
            ELSE self
    IN  IF e.version.set /\ e.version.val # <<>>
        THEN PushStrMethod(with_author, "version", e.version.val)
        ELSE with_author

\* The environment pass with the authors taken as they are.
InjectEnvVerbatim(self, e) ==
    LET with_version ==
            IF e.version.set /\ e.version.val # <<>>
            THEN PushStrMethod(self, "version", e.version.val)
            ELSE self
    IN  IF e.author.set /\ e.author.val # <<>>
        THEN PushStrMethod(with_version, "author", e.author.val)
        ELSE with_version

\* from_struct, the attrs_with_env pass over CARGO_PKG_VERSION and
\* CARGO_PKG_AUTHORS, in that order.
InjectEnv(self, e) ==
    LET with_version ==
            IF e.version.set /\ e.version.val # <<>>
            THEN PushStrMethod(self, "version", e.version.val)
            ELSE self
    IN  IF e.author.set /\ e.author.val # <<>>
        THEN PushStrMethod(with_version, "author",
                           Replace(e.author.val, ":", <<",", " ">>))
        ELSE with_version

\* The checks after push_attrs without the one of the custom parser.
StructCheckKindOnly(self) ==
    CASE self.kind.tag = "Subcommand" ->
            Panic(self, "subcommand is only allowed on fields")
      [] self.kind.tag = "FlattenStruct" ->
            Panic(self, "flatten is only allowed on fields")
      [] self.kind.tag = "Arg" -> Ok(self)

\* from_struct, the checks after push_attrs.
StructCheck(self) ==
    IF self.has_custom_parser
    THEN Panic(self, "parse attribute is only allowed on fields")
    ELSE CASE self.kind.tag = "Subcommand" ->
                Panic(self, "subcommand is only allowed on fields")
           [] self.kind.tag = "FlattenStruct" ->
                Panic(self, "flatten is only allowed on fields")
           [] self.kind.tag = "Arg" -> Ok(self)

\* A declared type is the sequence of its constructors' last path segments from
\* the outside in: Option<Vec<i32>> is <<"Option", "Vec", "i32">>. A reference,
\* tuple or function type starts with its form instead of an identifier.
NonPathForms == {"&", "(,)", "fn"}

IsTypePath(ty) == ty # <<>> /\ Head(ty) \notin NonPathForms

\* derives::sub_type: the single generic argument of a path type, or <<>> (None).
SubType(ty) == IF IsTypePath(ty) /\ Len(ty) > 1 THEN Tail(ty) ELSE <<>>

\* The classifier without the refinement of Option<Vec<_>>.
RECURSIVE TyFromFieldOptionOnly(_)
TyFromFieldOptionOnly(ty) ==
    IF IsTypePath(ty)
    THEN CASE Head(ty) = "bool" -> "Bool"
           [] Head(ty) = "Option" ->
                LET sub == IF SubType(ty) = <<>> THEN "None"
                           ELSE TyFromFieldOptionOnly(SubType(ty))
                IN  CASE sub = "Option" -> "OptionOption"
                      [] OTHER          -> "Option"
           [] Head(ty) = "Vec" -> "Vec"
           [] OTHER -> "Other"
    ELSE "Other"

\* Attrs::ty_from_field
RECURSIVE TyFromField(_)
TyFromField(ty) ==
    IF IsTypePath(ty)
    THEN CASE Head(ty) = "bool" -> "Bool"
           [] Head(ty) = "Option" ->
                LET sub == IF SubType(ty) = <<>> THEN "None"
                           ELSE TyFromField(SubType(ty))
                IN  CASE sub = "Option" -> "OptionOption"
                      [] sub = "Vec"    -> "OptionVec"
                      [] OTHER          -> "Option"
           [] Head(ty) = "Vec" -> "Vec"
           [] OTHER -> "Other"
    ELSE "Other"

\* The flatten check without its test of the directive list.
FlattenCheckParserOnly(self) ==
    IF self.has_custom_parser
    THEN Panic(self, "parse attribute is not allowed for flattened entry")
    ELSE Ok(self)

\* from_field, Kind::FlattenStruct
FlattenCheck(self) ==
    IF self.has_custom_parser
    THEN Panic(self, "parse attribute is not allowed for flattened entry")
    ELSE IF self.methods # <<>>
    THEN Panic(self, "methods and doc comments are not allowed for flattened entry")
    ELSE Ok(self)

\* from_field, Kind::Subcommand(_)
SubcommandCheck(self, ty) ==
    IF self.has_custom_parser
    THEN Panic(self, "parse attribute is not allowed for subcommand")
    ELSE IF ~(\A i \in DOMAIN self.methods : self.methods[i].name = "help")
    THEN Panic(self, "methods in attributes are not allowed for subcommand")
    ELSE IF ty = "OptionOption"
    THEN Panic(self, "Option<Option<T>> type is not allowed for subcommand")
    ELSE IF ty = "OptionVec"
    THEN Panic(self, "Option<Vec<T>> type is not allowed for subcommand")
    ELSE Ok([self EXCEPT !.kind = Subcommand(ty)])

\* A custom parser leaving no shape but Other.
ResolveTyAllOther(self, classified) ==
    IF self.has_custom_parser THEN "Other" ELSE classified

\* from_field, Kind::Arg(_): the shape a custom parser leaves.
ResolveTy(self, classified) ==
    IF self.has_custom_parser /\ classified \notin {"Option", "Vec"}
    THEN "Other"
    ELSE classified

\* from_field, Kind::Arg(_): the arms of the match on the resolved shape; each
\* gives "-" or the message it panics with.
\* The Bool arm checking `required` only.
CheckBoolRequiredOnly(self) ==
    IF HasMethod(self, "required") THEN "required is meaningless for bool" ELSE "-"

CheckBool(self) ==
    IF HasMethod(self, "default_value") THEN "default_value is meaningless for bool"
    ELSE IF HasMethod(self, "required") THEN "required is meaningless for bool"
    ELSE "-"

CheckOption(self) ==
    IF HasMethod(self, "default_value") THEN "default_value is meaningless for Option"
    ELSE IF HasMethod(self, "required") THEN "required is meaningless for Option"
    ELSE "-"

\* The OptionOption arm asking for `long`.
CheckOptionOptionLongOnly(self) ==
    IF ~HasMethod(self, "long")
    THEN "Option<Option<T>> type is meaningless for positional argument"
    ELSE "-"

\* The OptionOption arm accepting a positional argument.
CheckOptionOptionLax(self) == "-"

CheckOptionOption(self) ==
    IF ~(HasMethod(self, "long") \/ HasMethod(self, "short"))
    THEN "Option<Option<T>> type is meaningless for positional argument"
    ELSE "-"

CheckOptionVec(self) ==
    IF ~(HasMethod(self, "long") \/ HasMethod(self, "short"))
    THEN "Option<Vec<T>> type is meaningless for positional argument"
    ELSE "-"

\* from_field, Kind::Arg(_)
ArgCheck(self, classified) ==
    LET ty == ResolveTy(self, classified)
        msg == CASE ty = "Bool"         -> CheckBool(self)
                 [] ty = "Option"       -> CheckOption(self)
                 [] ty = "OptionOption" -> CheckOptionOption(self)
                 [] ty = "OptionVec"    -> CheckOptionVec(self)
                 [] OTHER               -> "-"
    IN  IF msg # "-" THEN Panic(self, msg) ELSE Ok([self EXCEPT !.kind = Arg(ty)])

\* from_field, the match on res.kind after push_attrs.
FieldCheck(self, field_type) ==
    CASE self.kind.tag = "FlattenStruct" -> FlattenCheck(self)
      [] self.kind.tag = "Subcommand"    -> SubcommandCheck(self, TyFromField(field_type))
      [] self.kind.tag = "Arg"           -> ArgCheck(self, TyFromField(field_type))

----------------------------------------------------------------------------
\* Inputs: what a struct or field under #[derive(Clap)] can carry.

\* The identifier of the struct or field.
Names == { <<"a","_","B">> }

\* The casing handed to from_struct / from_field.
Casings == {DEFAULT_CASING, "Verbatim"}

\* CARGO_PKG_VERSION and CARGO_PKG_AUTHORS.
Envs ==
    { [version |-> Unset,               author |-> Unset],
      [version |-> Var(<<"1",".","0">>), author |-> Unset],
      [version |-> Var(<<>>),           author |-> Var(<<"a",":","b">>)],
      [version |-> Var(<<"1",".","0">>), author |-> Var(<<"a",":","b">>)] }

\* The #[doc = "..."] values of the item: none, one line, two lines, and a
\* first line followed by a blank line and more text.
DocInputs ==
    { <<>>,
      << <<" ","A",".">> >>,
      << <<" ","A",".">>, <<" ","b">> >>,
      << <<" ","A",".">>, <<>>, <<" ","b">> >> }

\* Declared field types.
FieldTypes ==
    { <<"bool">>, <<"Vec","u8">>, <<"Option","i32">>, <<"Option","Option","i32">>,
      <<"Option","Vec","i32">>, <<"String">>, <<"&","str">> }

\* One parsed directive (derives::parse::ClapAttr).
ClapAttr(attr, name, lit, func) == [attr |-> attr, name |-> name, lit |-> lit, func |-> func]

NoFunc == [form |-> "None", text |-> "-"]

PathFunc == [form |-> "Path", text |-> "my_parser"]

ClosureFunc == [form |-> "Other", text |-> "|s| s.len()"]

LitStrNames == {"name", "about", "version", "default_value", "short"}

LitStrValues == { <<>>, <<"c","D">> }

ExprNames == {"version", "required"}

CallNames == {"about"}

ExprValue == <<"x","(",")">>

RenameAllValues == { <<"s","n","a","k","e">>, <<"P","a","s","c","a","l","C","a","s","e">>,
                     <<"l","o","u","d">> }

ParseSpecs ==
    { <<"from_str", NoFunc>>, <<"try_from_os_str", NoFunc>>,
      <<"from_occurrences", PathFunc>>, <<"try_from_str", ClosureFunc>>,
      <<"from_string", NoFunc>> }

----------------------------------------------------------------------------
\* The state machine: one resolution of one struct or field.
\*   pc = "env"    from_struct has constructed res and reads the environment next
\*   pc = "doc"    push_doc_comment is next
\*   pc = "attrs"  push_attrs' loop: `applied` is the directives consumed so far
\*   pc = "done"   the model was returned
\*   pc = "fatal"  the resolution panicked with message err
\* and, in the specification of ty_from_field alone,
\*   pc = "ty"          ty_from_field is next
\*   pc = "classified"  shape is its result for field_ty

NoEnv == [version |-> Unset, author |-> Unset]

Init ==
    /\ level \in {"struct", "field"}
    /\ \E name \in Names, casing \in Casings : res = New(name, casing)
    /\ pc = IF level = "struct" THEN "env" ELSE "doc"
    /\ env = NoEnv
    /\ docs = <<>>
    /\ applied = <<>>
    /\ field_ty = <<>>
    /\ shape = "-"
    /\ err = "-"

\* from_struct: attrs_with_env
FromStructEnv ==
    /\ pc = "env"
    /\ \E e \in Envs :
        /\ env' = e
        /\ res' = InjectEnv(res, e)
    /\ pc' = "doc"
    /\ UNCHANGED <<level, docs, applied, field_ty, shape, err>>

\* from_struct / from_field: push_doc_comment(attrs, "about" / "help")
DocComment ==
    /\ pc = "doc"
    /\ \E raw \in DocInputs :
        /\ docs' = raw
        /\ res' = PushDocComment(res, raw, IF level = "struct" THEN "about" ELSE "help")
    /\ pc' = "attrs"
    /\ UNCHANGED <<level, env, applied, field_ty, shape, err>>

\* One iteration of push_attrs' loop over directive d with outcome r.
Consume(d, r) ==
    /\ pc = "attrs"
    /\ Len(applied) < MaxAttrs
    /\ applied' = Append(applied, d)
    /\ res' = r.self
    /\ pc' = IF r.ok THEN "attrs" ELSE "fatal"
    /\ err' = r.msg
    /\ UNCHANGED <<level, env, docs, field_ty, shape>>

AttrShort == Consume(ClapAttr("Short", "-", <<>>, NoFunc), PushShort(res))

AttrLong == Consume(ClapAttr("Long", "-", <<>>, NoFunc), PushLong(res))

AttrSubcommand == Consume(ClapAttr("Subcommand", "-", <<>>, NoFunc), PushSubcommand(res))

AttrFlatten == Consume(ClapAttr("Flatten", "-", <<>>, NoFunc), PushFlatten(res))

AttrNameLitStr ==
    \E name \in LitStrNames, lit \in LitStrValues :
        Consume(ClapAttr("NameLitStr", name, lit, NoFunc), PushNameLitStr(res, name, lit))

AttrNameExpr ==
    \E name \in ExprNames :
        Consume(ClapAttr("NameExpr", name, ExprValue, NoFunc),
                PushNameExpr(res, name, ExprValue))

AttrMethodCall ==
    \E name \in CallNames :
        Consume(ClapAttr("MethodCall", name, ExprValue, NoFunc),
                PushMethodCall(res, name, ExprValue))

AttrRenameAll ==
    \E lit \in RenameAllValues :
        Consume(ClapAttr("RenameAll", "-", lit, NoFunc), PushRenameAll(res, lit))

AttrParse ==
    \E spec \in ParseSpecs :
        Consume(ClapAttr("Parse", spec[1], <<>>, spec[2]), PushParse(res, spec[1], spec[2]))

\* from_struct: the checks that follow push_attrs
FromStructReturn ==
    /\ pc = "attrs"
    /\ level = "struct"
    /\ LET r == StructCheck(res)
       IN  /\ res' = r.self
           /\ pc' = IF r.ok THEN "done" ELSE "fatal"
           /\ err' = r.msg
    /\ UNCHANGED <<level, env, docs, applied, field_ty, shape>>

\* from_field: the match on res.kind that follows push_attrs
FromFieldReturn ==
    /\ pc = "attrs"
    /\ level = "field"
    /\ \E ty \in FieldTypes :
        /\ field_ty' = ty
        /\ shape' = IF res.kind.tag = "FlattenStruct" THEN shape ELSE TyFromField(ty)
        /\ LET r == FieldCheck(res, ty)
           IN  /\ res' = r.self
               /\ pc' = IF r.ok THEN "done" ELSE "fatal"
               /\ err' = r.msg
    /\ UNCHANGED <<level, env, docs, applied>>

\* push_doc_comment as a function of the doc lines alone: every sequence of up
\* to MaxDocLines raw lines.
RawLines ==
    { <<" ","A",".">>, <<>>, <<" ","b">>, <<" "," ">>,
      <<" ","c",".",".">>, <<"/","/","/"," ","d"," ","e",".">> }

RawDocs == UNION { [1..n -> RawLines] : n \in 0..MaxDocLines }

DocInit ==
    /\ level \in {"struct", "field"}
    /\ \E name \in Names, casing \in Casings : res = New(name, casing)
    /\ pc = "doc"
    /\ env = NoEnv
    /\ docs = <<>>
    /\ applied = <<>>
    /\ field_ty = <<>>
    /\ shape = "-"
    /\ err = "-"

DocReflow ==
    /\ pc = "doc"
    /\ \E raw \in RawDocs :
        /\ docs' = raw
        /\ res' = PushDocComment(res, raw, IF level = "struct" THEN "about" ELSE "help")
    /\ pc' = "attrs"
    /\ UNCHANGED <<level, env, applied, field_ty, shape, err>>

DocNext == DocReflow

DocSpec == DocInit /\ [][DocNext]_vars

\* ty_from_field as a function of the declared type alone: every nesting of up
\* to MaxTypeDepth of these constructors, the innermost one included.
TypeHeads == {"bool", "Option", "Vec", "String", "&"}

DeclaredTypes == UNION { [1..n -> TypeHeads] : n \in 1..MaxTypeDepth }

TyInit ==
    /\ level = "field"
    /\ \E name \in Names, casing \in Casings : res = New(name, casing)
    /\ pc = "ty"
    /\ env = NoEnv
    /\ docs = <<>>
    /\ applied = <<>>
    /\ field_ty = <<>>
    /\ shape = "-"
    /\ err = "-"

TyClassify ==
    /\ pc = "ty"
    /\ \E ty \in DeclaredTypes :
        /\ field_ty' = ty
        /\ shape' = TyFromField(ty)
    /\ pc' = "classified"
    /\ UNCHANGED <<res, level, env, docs, applied, err>>

TyNext == TyClassify

TySpec == TyInit /\ [][TyNext]_vars

\* The Parse arm of push_attrs over every parser kind, one unknown kind
\* included, without a function, with a function path and with a closure.
ParseKinds ==
    {"from_str", "try_from_str", "from_os_str", "try_from_os_str", "from_occurrences",
     "from_string"}

ParseFuncs == {NoFunc, PathFunc, ClosureFunc}

ParseInit ==
    /\ level \in {"struct", "field"}
    /\ \E name \in Names, casing \in Casings : res = New(name, casing)
    /\ pc = "attrs"
    /\ env = NoEnv
    /\ docs = <<>>
    /\ applied = <<>>
    /\ field_ty = <<>>
    /\ shape = "-"
    /\ err = "-"

AttrParseAny ==
    \E kind \in ParseKinds, func \in ParseFuncs :
        Consume(ClapAttr("Parse", kind, <<>>, func), PushParse(res, kind, func))

ParseNext == AttrParseAny

ParseSpec == ParseInit /\ [][ParseNext]_vars

\* The RenameAll arm of push_attrs over a literal for each casing style, two
\* other spellings and one name that is no style.
RenameLits ==
    { <<"c","a","m","e","l">>, <<"k","e","b","a","b">>, <<"p","a","s","c","a","l">>,
      <<"s","c","r","e","a","m","i","n","g","s","n","a","k","e">>,
      <<"s","n","a","k","e">>, <<"v","e","r","b","a","t","i","m">>,
      <<"k","e","b","a","b","-","c","a","s","e">>,
      <<"S","N","A","K","E","_","C","A","S","E">>,
      <<"l","o","u","d">> }

RenameInit ==
    /\ level \in {"struct", "field"}
    /\ \E name \in Names, casing \in Casings : res = New(name, casing)
    /\ pc = "attrs"
    /\ env = NoEnv
    /\ docs = <<>>
    /\ applied = <<>>
    /\ field_ty = <<>>
    /\ shape = "-"
    /\ err = "-"

AttrRenameAllAny ==
    \E lit \in RenameLits :
        Consume(ClapAttr("RenameAll", "-", lit, NoFunc), PushRenameAll(res, lit))

RenameNext == AttrRenameAllAny

RenameSpec == RenameInit /\ [][RenameNext]_vars

\* The NameExpr and MethodCall arms of push_attrs over the method names that
\* the string-literal form treats specially, after and before string-literal
\* directives. A method call's arguments may be the tokens of an empty string.
SpecialNames == {"name", "about", "version", "author"}

CallValues == { ExprValue, <<"\"", "\"">> }

ExprInit ==
    /\ level \in {"struct", "field"}
    /\ \E name \in Names, casing \in Casings : res = New(name, casing)
    /\ pc = "attrs"
    /\ env = NoEnv
    /\ docs = <<>>
    /\ applied = <<>>
    /\ field_ty = <<>>
    /\ shape = "-"
    /\ err = "-"

AttrNameExprAny ==
    \E name \in SpecialNames :
        Consume(ClapAttr("NameExpr", name, ExprValue, NoFunc),
                PushNameExpr(res, name, ExprValue))

AttrMethodCallAny ==
    \E name \in SpecialNames, args \in CallValues :
        Consume(ClapAttr("MethodCall", name, args, NoFunc),
                PushMethodCall(res, name, args))

ExprNext ==
    \/ AttrNameLitStr
    \/ AttrNameExprAny
    \/ AttrMethodCallAny

ExprSpec == ExprInit /\ [][ExprNext]_vars

Next ==
    \/ FromStructEnv
    \/ DocComment
    \/ AttrShort
    \/ AttrLong
    \/ AttrSubcommand
    \/ AttrFlatten
    \/ AttrNameLitStr
    \/ AttrNameExpr
    \/ AttrMethodCall
    \/ AttrRenameAll
    \/ AttrParse
    \/ FromStructReturn
    \/ FromFieldReturn

Spec == Init /\ [][Next]_vars

----------------------------------------------------------------------------
\* Vocabulary of the properties: what the item carries, read off `applied`.

Last(seq) == seq[Len(seq)]

\* This step consumed one directive (the last of applied').
ConsumedOne == Len(applied') = Len(applied) + 1

NamedAttrs == {"NameLitStr", "NameExpr", "MethodCall"}

\* The item carries a directive written with method name nm.
Carries(nm) ==
    \E i \in DOMAIN applied : applied[i].attr \in NamedAttrs /\ applied[i].name = nm

CarriesAttr(a) == \E i \in DOMAIN applied : applied[i].attr = a

CarriesShortOrLong ==
    CarriesAttr("Short") \/ CarriesAttr("Long") \/ Carries("short") \/ Carries("long")

\* from_field got as far as its match on res.kind, for a field of type field_ty.
FieldChecked == level = "field" /\ field_ty # <<>> /\ pc \in {"done", "fatal"}

KindAttrs == {"Subcommand", "Flatten"}

KindOf(d) == IF d.attr = "Subcommand" THEN Subcommand("Other") ELSE FlattenStruct

----------------------------------------------------------------------------
\* What one step may do to the kind.
C1_Step ==
    /\ res.kind.tag # "Arg" => res'.kind.tag = res.kind.tag
    /\ (ConsumedOne /\ Last(applied').attr \in KindAttrs) =>
            IF \E i \in DOMAIN applied : applied[i].attr \in KindAttrs
            THEN pc' = "fatal" /\ res'.kind = res.kind
            ELSE pc' = "attrs" /\ res'.kind = KindOf(Last(applied'))

\* C1: the kind leaves Arg at most once. The first `subcommand` or `flatten`
\* directive sets the kind; once the kind is not Arg no step changes its variant,
\* and a later `subcommand` or `flatten` directive (in either order, a repeat
\* included) ends in a fatal error with the kind as it was.
C1_KindSetOnce == [][C1_Step]_vars

\* `flatten` then `subcommand`: fatal, the kind still FlattenStruct.
C1_Witness ==
    /\ pc = "fatal"
    /\ err = "subcommands cannot be flattened"
    /\ Len(applied) = 2
    /\ applied[1].attr = "Flatten"
    /\ applied[2].attr = "Subcommand"
    /\ res.kind = FlattenStruct

\* C2: in every reachable state, after Attrs::new and after every directive,
\* cased_name is the translation of the current name under the current casing.
C2_CasedNameFresh == res.cased_name = Translate(res.casing, res.name)

\* A `name = "cD"` and then a `rename_all` that changes how it is cased.
C2_Witness ==
    /\ pc = "attrs"
    /\ Len(applied) = 2
    /\ applied[1].attr = "NameLitStr" /\ applied[1].name = "name"
    /\ applied[2].attr = "RenameAll"
    /\ res.name = <<"c","D">>
    /\ res.cased_name \notin {res.name, Translate(DEFAULT_CASING, res.name)}

\* C3 as stated: a field whose type classifies as Bool and which carries a
\* `default_value` directive is never accepted, whatever else it carries.
C3_Original ==
    (FieldChecked /\ TyFromField(field_ty) = "Bool" /\ Carries("default_value"))
        => pc = "fatal"

\* C3 as amended: a field whose type classifies as Bool, which carries a
\* `default_value` directive and no `parse(...)` directive, is never accepted.
C3_BoolDefaultValue ==
    (FieldChecked /\ TyFromField(field_ty) = "Bool" /\ Carries("default_value")
        /\ ~CarriesAttr("Parse"))
        => pc = "fatal"

\* A plain bool argument with a default_value, rejected for it.
C3_Witness ==
    /\ FieldChecked
    /\ field_ty = <<"bool">>
    /\ Carries("default_value")
    /\ ~CarriesAttr("Parse")
    /\ res.kind = Arg("Other")
    /\ pc = "fatal"
    /\ err = "default_value is meaningless for bool"

\* C4 as stated: a field whose type classifies as OptionOption or OptionVec and
\* which has neither `short` nor `long` is never accepted.
C4_Original ==
    (FieldChecked /\ TyFromField(field_ty) \in {"OptionOption", "OptionVec"}
        /\ ~CarriesShortOrLong)
        => pc = "fatal"

\* C4 as amended: such a field is never accepted when it also carries neither
\* `parse(...)` nor `flatten`.
C4_PositionalOptionOption ==
    (FieldChecked /\ TyFromField(field_ty) \in {"OptionOption", "OptionVec"}
        /\ ~CarriesShortOrLong /\ ~CarriesAttr("Parse") /\ ~CarriesAttr("Flatten"))
        => pc = "fatal"

\* A positional Option<Option<T>> argument, rejected for being positional.
C4_Witness ==
    /\ FieldChecked
    /\ field_ty = <<"Option", "Option", "i32">>
    /\ ~CarriesShortOrLong
    /\ pc = "fatal"
    /\ err = "Option<Option<T>> type is meaningless for positional argument"

----------------------------------------------------------------------------
\* Cancellation by an empty literal.
ZeroArg == {"about", "version", "author"}

IsCancel(d) == d.attr = "NameLitStr" /\ d.name \in ZeroArg /\ d.lit = <<>>

\* Position i of app holds a cancellation of m that no directive named m follows.
CancelStands(app, m, i) ==
    /\ IsCancel(app[i])
    /\ app[i].name = m
    /\ \A j \in (i + 1)..Len(app) : ~(app[j].attr \in NamedAttrs /\ app[j].name = m)

C5_Step ==
    /\ (ConsumedOne /\ IsCancel(Last(applied'))) =>
            /\ pc' = "attrs"
            /\ res'.methods =
                 SelectSeq(res.methods, LAMBDA x : x.name # Last(applied').name)
            /\ res' = [res EXCEPT !.methods = res'.methods]
    /\ \A m \in ZeroArg :
            (\E i \in DOMAIN applied' : CancelStands(applied', m, i))
                => \A k \in DOMAIN res'.methods : res'.methods[k].name # m

\* C5: `about = ""`, `version = ""` or `author = ""` removes every entry of that
\* name accumulated so far, appends nothing, and leaves every other entry, their
\* order and the rest of the model as they were; while no later directive of
\* that name follows, the list holds no entry of that name.
C5_Cancellation == [][C5_Step]_vars

\* `version = ""` took the injected version away and left the injected author.
C5_Witness ==
    /\ level = "struct"
    /\ pc = "done"
    /\ env.version = Var(<<"1",".","0">>)
    /\ env.author.set
    /\ Len(applied) = 1 /\ IsCancel(applied[1]) /\ applied[1].name = "version"
    /\ ~HasMethod(res, "version")
    /\ HasMethod(res, "author")

\* C6 as stated: the directive list holds at most one entry named `about`, one
\* named `version` and one named `author`.
C6_Original ==
    \A m \in ZeroArg :
        Cardinality({i \in DOMAIN res.methods : res.methods[i].name = m}) <= 1

\* What a non-empty about/version/author literal does to the list.
C6_Step ==
    (/\ ConsumedOne
     /\ Last(applied').attr = "NameLitStr"
     /\ Last(applied').name \in ZeroArg
     /\ Last(applied').lit # <<>>) =>
        /\ pc' = "attrs"
        /\ res' = [res EXCEPT !.methods =
                     Append(res.methods,
                            Method(Last(applied').name, StrTokens(Last(applied').lit)))]

\* C6 as amended: a non-empty `about`, `version` or `author` literal is appended
\* after the entries already in the list and removes none of them, so the entry
\* applied last is the last of its name.
C6_LaterOccurrenceAppended == [][C6_Step]_vars

\* An injected version followed by the user's: both entries, the user's last.
C6_Witness ==
    /\ level = "struct"
    /\ pc = "done"
    /\ docs = <<>>
    /\ Len(applied) = 1
    /\ res.methods = << Method("version", StrTokens(<<"1",".","0">>)),
                        Method("version", StrTokens(<<"c","D">>)) >>

\* C7 as stated: a `subcommand` field that reaches from_field's checks is
\* accepted when it has no custom parser, its shape is neither OptionOption nor
\* OptionVec and every entry of its list is `help` or `long_help`; it is
\* rejected when its list holds any other entry.
C7_SubcommandDocsOnly ==
    (FieldChecked /\ res.kind.tag = "Subcommand") =>
        LET docOnly == \A i \in DOMAIN res.methods :
                            res.methods[i].name \in {"help", "long_help"}
        IN  /\ (/\ ~res.has_custom_parser
                /\ TyFromField(field_ty) \notin {"OptionOption", "OptionVec"}
                /\ docOnly) => pc = "done"
            /\ ~docOnly => pc = "fatal"

\* C8 as stated: a `flatten` field that reaches from_field's checks is rejected
\* exactly when it has a custom parser or an entry that is not doc-derived.
C8_Original ==
    (FieldChecked /\ res.kind.tag = "FlattenStruct") =>
        (pc = "fatal" <=>
            \/ CarriesAttr("Parse")
            \/ \E i \in DOMAIN res.methods :
                    res.methods[i].name \notin {"help", "long_help"})

\* C8 as amended: it is rejected exactly when it has a custom parser or its
\* directive list is not empty, doc-derived entries included; an accepted one
\* has kind FlattenStruct, no entry and no doc comment.
C8_FlattenCheck ==
    /\ (FieldChecked /\ res.kind.tag = "FlattenStruct") =>
            (pc = "fatal" <=> (CarriesAttr("Parse") \/ res.methods # <<>>))
    /\ (FieldChecked /\ CarriesAttr("Flatten") /\ pc = "done") =>
            /\ res.kind = FlattenStruct
            /\ res.methods = <<>>
            /\ docs = <<>>

\* A flattened field with a doc comment and nothing else, rejected.
C8_Witness ==
    /\ FieldChecked
    /\ docs # <<>>
    /\ Len(applied) = 1 /\ applied[1].attr = "Flatten"
    /\ pc = "fatal"
    /\ err = "methods and doc comments are not allowed for flattened entry"

----------------------------------------------------------------------------
\* The directive list the inputs call for.

\* What an entry of the list must be: its name, and its argument where the
\* directive alone fixes it (a bare short/long takes the cased name of the moment).
\* pos is the position in `applied` of the directive it comes from, 0 for the
\* entries that precede the user's directives.
Expect(name, fixed, args, pos) == [name |-> name, fixed |-> fixed, args |-> args, pos |-> pos]

InjectedExpected ==
    IF level # "struct" THEN <<>>
    ELSE (IF env.version.set /\ env.version.val # <<>>
          THEN << Expect("version", TRUE, StrTokens(env.version.val), 0) >>
          ELSE <<>>)
         \o
         (IF env.author.set /\ env.author.val # <<>>
          THEN << Expect("author", TRUE,
                         StrTokens(Replace(env.author.val, ":", <<",", " ">>)), 0) >>
          ELSE <<>>)

DocName == IF level = "struct" THEN "about" ELSE "help"

DocExpected ==
    LET made == PushDocComment([methods |-> <<>>], docs, DocName).methods
    IN  [i \in DOMAIN made |-> Expect(made[i].name, TRUE, made[i].args, 0)]

\* The directives that append an entry.
Appends(d) ==
    \/ d.attr \in {"Short", "Long", "NameExpr", "MethodCall"}
    \/ d.attr = "NameLitStr" /\ d.name # "name" /\ ~IsCancel(d)

UserExpected ==
    LET entry(i) ==
            LET d == applied[i]
            IN  CASE d.attr = "Short" -> Expect("short", FALSE, StrTokens(<<>>), i)
                  [] d.attr = "Long"  -> Expect("long", FALSE, StrTokens(<<>>), i)
                  [] d.attr = "NameLitStr" -> Expect(d.name, TRUE, StrTokens(d.lit), i)
                  [] OTHER -> Expect(d.name, TRUE, ExprTokens(d.lit), i)
        all == [i \in DOMAIN applied |-> [d |-> applied[i], e |-> entry(i)]]
        kept == SelectSeq(all, LAMBDA x : Appends(x.d))
    IN  [i \in DOMAIN kept |-> kept[i].e]

Survives(e) ==
    ~\E j \in DOMAIN applied : j > e.pos /\ IsCancel(applied[j]) /\ applied[j].name = e.name

ExpectedMethods == SelectSeq(InjectedExpected \o DocExpected \o UserExpected, Survives)

\* C9: the directive list is, in this order, the injected defaults (struct
\* level only, `version` before `author`), the doc-derived entries, and one entry
\* for each directive of the user that appends, in the order written; the only
\* entries missing are those an `about`/`version`/`author` empty literal written
\* after them cancelled.
C9_DirectiveOrder ==
    LET expected == ExpectedMethods
    IN  /\ Len(res.methods) = Len(expected)
        /\ \A i \in DOMAIN res.methods :
                /\ res.methods[i].name = expected[i].name
                /\ expected[i].fixed => res.methods[i].args = expected[i].args

\* A struct with both injected defaults, a splitting doc comment and two
\* directives of the user.
C9_Witness ==
    /\ level = "struct"
    /\ pc = "done"
    /\ Len(applied) = 2
    /\ applied[1].attr = "NameExpr" /\ applied[1].name = "required"
    /\ applied[2].attr = "Long"
    /\ [i \in DOMAIN res.methods |-> res.methods[i].name]
         = <<"version", "author", "long_about", "about", "required", "long">>

----------------------------------------------------------------------------
\* Documentation reflow, stated on the raw doc lines.

IsBlankLine(raw) == DocText(raw) = <<>>

\* The merged text: the lines joined by single spaces, a blank line standing as
\* a paragraph break with no space around it.
RECURSIVE MergedFrom(_, _)
MergedFrom(lines, i) ==
    IF i > Len(lines) THEN <<>>
    ELSE (IF IsBlankLine(lines[i]) THEN ParagraphBreak ELSE DocText(lines[i]))
         \o (IF /\ i < Len(lines)
                /\ ~IsBlankLine(lines[i])
                /\ ~IsBlankLine(lines[i + 1])
             THEN <<" ">> ELSE <<>>)
         \o MergedFrom(lines, i + 1)

\* short is text without its trailing periods.
IsWithoutTrailingPeriod(short, text) ==
    /\ Len(short) <= Len(text)
    /\ short = Slice(text, 1, Len(short))
    /\ \A k \in (Len(short) + 1)..Len(text) : text[k] = "."
    /\ (short = <<>> \/ Last(short) # ".")

\* C10: documentation reflow for a field (or struct) whose directive is F. With
\* more than 2 doc lines of which the second is blank, two entries result: F with
\* the first line, trimmed and without trailing period, and long_F with the
\* merged text; with any other non-empty list of doc lines, the one entry F with
\* the merged text; with no doc line, no entry.
C10_DocReflow ==
    pc = "attrs" =>
        LET merged == StrTokens(MergedFrom(docs, 1))
        IN  IF docs = <<>> THEN res.methods = <<>>
            ELSE IF Len(docs) > 2 /\ IsBlankLine(docs[2])
            THEN /\ Len(res.methods) = 2
                 /\ \E i, j \in DOMAIN res.methods :
                        /\ res.methods[i].name = DocName
                        /\ res.methods[i].args.form = "str"
                        /\ IsWithoutTrailingPeriod(res.methods[i].args.text,
                                                   DocText(docs[1]))
                        /\ res.methods[j] = Method("long_" \o DocName, merged)
            ELSE res.methods = << Method(DocName, merged) >>

\* " A." / blank / " b" on a field: help = "A", long_help = "A.\n\nb".
C10_Witness ==
    /\ pc = "attrs"
    /\ level = "field"
    /\ docs = << <<" ","A",".">>, <<>>, <<" ","b">> >>
    /\ \E i, j \in DOMAIN res.methods :
        /\ res.methods[i] = Method("help", StrTokens(<<"A">>))
        /\ res.methods[j] = Method("long_help", StrTokens(<<"A",".","\n","\n","b">>))

----------------------------------------------------------------------------
\* A type argument that is not itself an Option<_> or a Vec<_>.
IsPlainType(u) == u = <<>> \/ Head(u) \notin {"Option", "Vec"}

\* C11: the shape of a declared type. A path type whose last segment is bool
\* is Bool; Vec<T> is Vec; Option<T> is OptionOption when T is Option<U> with U
\* a plain type, OptionVec when T is Vec<U>, and Option when T is neither an
\* Option nor a Vec; every other path type and every non-path type is Other.
C11_Classification ==
    pc = "classified" =>
        LET h == Head(field_ty)
            T == Tail(field_ty)
        IN  /\ h = "bool" => shape = "Bool"
            /\ h = "Vec" => shape = "Vec"
            /\ h = "Option" =>
                    /\ (T # <<>> /\ Head(T) = "Option" /\ IsPlainType(Tail(T)))
                            => shape = "OptionOption"
                    /\ (T # <<>> /\ Head(T) = "Vec") => shape = "OptionVec"
                    /\ IsPlainType(T) => shape = "Option"
            /\ h \notin {"bool", "Vec", "Option"} => shape = "Other"

\* Option<Vec<String>> is OptionVec.
C11_Witness ==
    /\ pc = "classified"
    /\ field_ty = <<"Option", "Vec", "String">>
    /\ shape = "OptionVec"

----------------------------------------------------------------------------
\* C12: the model from_struct returns always has kind Arg and no custom
\* parser: a struct whose directives include `parse(...)`, `subcommand` or
\* `flatten` ends in a fatal error and no model is returned.
C12_StructModel ==
    level = "struct" =>
        /\ pc = "done" => res.kind.tag = "Arg" /\ ~res.has_custom_parser
        /\ (/\ pc \in {"done", "fatal"}
            /\ \/ CarriesAttr("Parse")
               \/ CarriesAttr("Subcommand")
               \/ CarriesAttr("Flatten")) => pc = "fatal"

\* A struct with `parse(from_str)` and nothing else wrong is refused by
\* from_struct's own check.
C12_Witness ==
    /\ level = "struct"
    /\ pc = "fatal"
    /\ CarriesAttr("Parse")
    /\ err = "parse attribute is only allowed on fields"

----------------------------------------------------------------------------
\* C13: for a field of kind Arg with a `parse(...)` directive the resolved
\* shape is the classified shape when that is Option or Vec and Other
\* otherwise, so it is always one of Option, Vec and Other; the legality checks
\* run on the resolved shape: the field is refused exactly when that shape is
\* Option and the field carries `default_value` or `required`.
C13_CustomParserShape ==
    (FieldChecked /\ res.kind.tag = "Arg" /\ CarriesAttr("Parse")) =>
        LET resolved == IF shape \in {"Option", "Vec"} THEN shape ELSE "Other"
        IN  /\ pc = "done" => res.kind = Arg(resolved)
            /\ pc = "fatal" <=>
                    /\ resolved = "Option"
                    /\ Carries("default_value") \/ Carries("required")

\* `#[clap(parse(from_str))] x: Option<i32>` resolves to Arg(Option).
C13_Witness ==
    /\ FieldChecked
    /\ field_ty = <<"Option", "i32">>
    /\ Len(applied) = 1
    /\ applied[1].attr = "Parse"
    /\ applied[1].name = "from_str"
    /\ pc = "done"
    /\ res.kind = Arg("Option")

----------------------------------------------------------------------------
\* The entry the environment pass makes of one variable.
Injected(name, var, text) ==
    IF var.set /\ var.val # <<>> THEN << Method(name, StrTokens(text)) >> ELSE <<>>

C14_Step ==
    /\ pc = "env" =>
            /\ level = "struct"
            /\ pc' = "doc"
            /\ res' = [res EXCEPT !.methods =
                            res.methods
                            \o Injected("version", env'.version, env'.version.val)
                            \o Injected("author", env'.author,
                                        Join(Split(env'.author.val, ":"), <<",", " ">>))]
    /\ pc # "env" => env' = env
    /\ level = "field" => env = NoEnv /\ (pc = "doc" => res.methods = <<>>)

\* C14: from_struct injects the build metadata before anything else, `version`
\* first and then `author`, the author with every `:` replaced by `, ` and the
\* version as it is; a variable that is absent or empty injects nothing, changes
\* nothing else and is no error. from_field reads no build metadata: a field's
\* directive list is empty when its doc comment is read.
C14_EnvInjection == [][C14_Step]_vars

\* An empty CARGO_PKG_VERSION and CARGO_PKG_AUTHORS = "a:b": the one entry
\* author = "a, b".
C14_Witness ==
    /\ level = "struct"
    /\ pc = "doc"
    /\ env = [version |-> Var(<<>>), author |-> Var(<<"a", ":", "b">>)]
    /\ res.methods = << Method("author", StrTokens(<<"a", ",", " ", "b">>)) >>

----------------------------------------------------------------------------
\* The field has a `short` directive, bare or with a value.
CarriesShort == CarriesAttr("Short") \/ Carries("short")

\* C15 as stated: a field of type Option<Option<T>> with a `short` directive is
\* never refused by from_field.
C15_Original ==
    (FieldChecked /\ TyFromField(field_ty) = "OptionOption" /\ CarriesShort)
        => pc # "fatal"

\* C15 as amended: a field of type Option<Option<T>> with a `short` directive
\* and neither `subcommand` nor `flatten`, whose directives were all applied
\* without error, is returned by from_field; it resolves to Arg(OptionOption),
\* or to Arg(Other) when it carries `parse(...)`.
C15_ShortOptionOption ==
    (/\ FieldChecked
     /\ TyFromField(field_ty) = "OptionOption"
     /\ CarriesShort
     /\ ~CarriesAttr("Subcommand")
     /\ ~CarriesAttr("Flatten")) =>
        /\ pc = "done"
        /\ res.kind = Arg(IF CarriesAttr("Parse") THEN "Other" ELSE "OptionOption")

\* `#[clap(short)] x: Option<Option<i32>>` resolves to Arg(OptionOption).
C15_Witness ==
    /\ FieldChecked
    /\ field_ty = <<"Option", "Option", "i32">>
    /\ Len(applied) = 1
    /\ applied[1].attr = "Short"
    /\ pc = "done"
    /\ res.kind = Arg("OptionOption")

----------------------------------------------------------------------------
\* C16: classification looks no deeper than two levels: the shape of
\* Option<T> depends on the outermost constructor of T alone, being
\* OptionOption when T is an Option<_>, OptionVec when T is a Vec<_>, and
\* Option otherwise, whatever T's own argument is (Option<Option<Option<U>>>
\* and Option<Option<Vec<U>>> are both OptionOption).
C16_TwoLevels ==
    (pc = "classified" /\ Len(field_ty) >= 2 /\ Head(field_ty) = "Option") =>
        shape = CASE field_ty[2] = "Option" -> "OptionOption"
                  [] field_ty[2] = "Vec"    -> "OptionVec"
                  [] OTHER                  -> "Option"

----------------------------------------------------------------------------
\* The parser kind each kind name stands for.
ParserVariants ==
    ("from_str" :> "FromStr") @@ ("try_from_str" :> "TryFromStr")
    @@ ("from_os_str" :> "FromOsStr") @@ ("try_from_os_str" :> "TryFromOsStr")
    @@ ("from_occurrences" :> "FromOccurrences")

\* The function of a `parse(kind)` written without one.
DefaultFunctions ==
    ("from_str" :> "::std::convert::From::from")
    @@ ("from_os_str" :> "::std::convert::From::from")
    @@ ("try_from_str" :> "::std::str::FromStr::from_str")
    @@ ("from_occurrences" :> "{ |v| v as _ }")

\* The parse directive d is one the claim accepts.
IsAcceptedParse(d) ==
    /\ d.name \in DOMAIN ParserVariants
    /\ d.func.form = "None" => d.name \in DOMAIN DefaultFunctions
    /\ d.func.form # "None" => d.func.form = "Path"

\* The (kind, function) pair an accepted parse directive d selects.
SelectedParser(d) ==
    << ParserVariants[d.name],
       IF d.func.form = "None" THEN DefaultFunctions[d.name] ELSE d.func.text >>

C17_Step ==
    (ConsumedOne /\ Last(applied').attr = "Parse") =>
        LET d == Last(applied')
        IN  IF IsAcceptedParse(d)
            THEN pc' = "attrs" /\ res'.parser = SelectedParser(d)
            ELSE pc' = "fatal" /\ res'.parser = res.parser

\* C17: `parse(kind)` without a function selects From::from for from_str and
\* from_os_str, FromStr::from_str for try_from_str and a numeric cast for
\* from_occurrences, and is fatal for try_from_os_str; `parse(kind, func)` is
\* accepted only when func is a function path, which it then selects, and is
\* fatal otherwise; an unknown kind is fatal in both forms.
C17_ParserSelection == [][C17_Step]_vars

\* `parse(from_occurrences)`: the numeric cast.
C17_Witness ==
    /\ pc = "attrs"
    /\ Len(applied) = 1
    /\ applied[1] = ClapAttr("Parse", "from_occurrences", <<>>, NoFunc)
    /\ res.parser = <<"FromOccurrences", "{ |v| v as _ }">>

----------------------------------------------------------------------------
\* The positions in `applied` of the parse directives that were applied
\* without error.
AppliedParses ==
    { i \in DOMAIN applied : applied[i].attr = "Parse" /\ IsAcceptedParse(applied[i]) }

\* C18: has_custom_parser is false until the first `parse` directive and true
\* from then on, whatever directives follow; the active parser is (TryFromStr,
\* FromStr::from_str) until a `parse` directive is applied, no other directive
\* changes it, and after several `parse` directives it is the one the last of
\* them selects.
C18_ActiveParser ==
    /\ res.has_custom_parser <=> CarriesAttr("Parse")
    /\ res.parser =
            IF AppliedParses = {}
            THEN <<"TryFromStr", "::std::str::FromStr::from_str">>
            ELSE SelectedParser(
                    applied[CHOOSE i \in AppliedParses : \A j \in AppliedParses : j <= i])

\* `parse(from_str)` then `parse(from_occurrences, my_parser)`: the second one
\* stands.
C18_Witness ==
    /\ pc = "attrs"
    /\ Len(applied) = 2
    /\ applied[1] = ClapAttr("Parse", "from_str", <<>>, NoFunc)
    /\ applied[2] = ClapAttr("Parse", "from_occurrences", <<>>, PathFunc)
    /\ res.has_custom_parser
    /\ res.parser = <<"FromOccurrences", "my_parser">>

----------------------------------------------------------------------------
IsShortOrLong(m) == m.name \in {"short", "long"}

IsPrefix(s, t) == Len(s) <= Len(t) /\ SubSeq(t, 1, Len(s)) = s

C19_Step ==
    /\ (ConsumedOne /\ Last(applied').attr \in {"Short", "Long"}) =>
            LET method == IF Last(applied').attr = "Short" THEN "short" ELSE "long"
            IN  /\ pc' = "attrs"
                /\ res' = [res EXCEPT !.methods =
                                Append(res.methods,
                                       Method(method, StrTokens(res.cased_name)))]
    /\ IsPrefix(SelectSeq(res.methods, IsShortOrLong),
                SelectSeq(res'.methods, IsShortOrLong))

\* C19: a bare `short` or `long` appends an entry whose argument is the cased
\* name of that moment; no later step changes the `short` and `long` entries
\* already in the list, so a `name = ...` or `rename_all = ...` written after
\* it changes cased_name and not that argument: the result depends on the
\* order of the directives.
C19_ShortLongSnapshot == [][C19_Step]_vars

\* `short` then `name = "cD"`: the entry keeps "a-b" while the cased name is
\* now "c-d".
C19_Witness ==
    /\ pc = "attrs"
    /\ Len(applied) = 2
    /\ applied[1].attr = "Short"
    /\ applied[2].attr = "NameLitStr" /\ applied[2].name = "name"
    /\ res.cased_name = <<"c", "-", "d">>
    /\ res.methods[Len(res.methods)] = Method("short", StrTokens(<<"a", "-", "b">>))

----------------------------------------------------------------------------
\* C20 as stated: with fewer than 2 doc lines the reflow emits no directive.
C20_Original == (pc = "attrs" /\ Len(docs) < 2) => res.methods = <<>>

\* C20 as amended: the reflow emits no directive only when no doc line was
\* collected; a struct or field with exactly one doc-comment line gets exactly
\* one directive, `about` or `help`, holding the text of that line (a paragraph
\* break for a blank line).
C20_SingleDocLine ==
    pc = "attrs" =>
        /\ res.methods = <<>> <=> docs = <<>>
        /\ Len(docs) = 1 =>
                LET text == IF IsBlankLine(docs[1]) THEN ParagraphBreak
                            ELSE DocText(docs[1])
                IN  res.methods = << Method(DocName, StrTokens(text)) >>

\* The one doc line " A." on a field: help = "A.".
C20_Witness ==
    /\ pc = "attrs"
    /\ level = "field"
    /\ docs = << <<" ", "A", ".">> >>
    /\ res.methods = << Method("help", StrTokens(<<"A", ".">>)) >>

----------------------------------------------------------------------------
\* The style each style literal names.
StyleOfLit ==
    (<<"c","a","m","e","l">> :> "Camel") @@ (<<"k","e","b","a","b">> :> "Kebab")
    @@ (<<"p","a","s","c","a","l">> :> "Pascal")
    @@ (<<"s","c","r","e","a","m","i","n","g","s","n","a","k","e">> :> "ScreamingSnake")
    @@ (<<"s","n","a","k","e">> :> "Snake")
    @@ (<<"v","e","r","b","a","t","i","m">> :> "Verbatim")
    @@ (<<"k","e","b","a","b","-","c","a","s","e">> :> "Kebab")
    @@ (<<"S","N","A","K","E","_","C","A","S","E">> :> "Snake")
    @@ (<<"P","a","s","c","a","l","C","a","s","e">> :> "Pascal")

\* The positions in `applied` of the rename_all directives naming a style.
AppliedRenames ==
    { i \in DOMAIN applied :
        applied[i].attr = "RenameAll" /\ applied[i].lit \in DOMAIN StyleOfLit }

\* C21: after any sequence of `rename_all` directives the casing is the style
\* the last of them names and cased_name is the translation of the un-cased
\* name under that style, whatever the styles before it did to cased_name; a
\* `rename_all` whose literal names no style is fatal.
C21_RenameAll ==
    /\ \A i \in DOMAIN applied :
            (applied[i].attr = "RenameAll" /\ applied[i].lit \notin DOMAIN StyleOfLit)
                => (pc = "fatal" /\ i = Len(applied))
    /\ AppliedRenames # {} =>
            LET last == CHOOSE i \in AppliedRenames : \A j \in AppliedRenames : j <= i
                style == StyleOfLit[applied[last].lit]
            IN  /\ res.casing = style
                /\ res.cased_name = Translate(style, res.name)

\* `rename_all = "pascal"` then `rename_all = "snake"` on a_B: "a_b", where the
\* snake casing of the Pascal-cased "AB" would be "ab".
C21_Witness ==
    /\ pc = "attrs"
    /\ Len(applied) = 2
    /\ applied[1].lit = <<"p","a","s","c","a","l">>
    /\ applied[2].lit = <<"s","n","a","k","e">>
    /\ res.name = <<"a", "_", "B">>
    /\ res.cased_name = <<"a", "_", "b">>
    /\ Translate("Snake", Translate("Pascal", res.name)) = <<"a", "b">>

----------------------------------------------------------------------------
C22_Step ==
    (ConsumedOne /\ Last(applied').attr \in {"NameExpr", "MethodCall"}) =>
        LET d == Last(applied')
        IN  /\ pc' = "attrs"
            /\ res' = [res EXCEPT !.methods =
                            Append(res.methods, Method(d.name, ExprTokens(d.lit)))]

\* C22: a `name = <expr>` or `name(<args>)` directive only appends the entry
\* (name, argument) to the end of the directive list: name, cased_name, casing,
\* kind, parser and has_custom_parser stay as they were and no entry is
\* removed, also when the method name is `name`, `about`, `version` or
\* `author`; only the string-literal form renames and cancels.
C22_ExprAppendsOnly == [][C22_Step]_vars

\* `about = "cD"` then `name = x()`: both entries, the name still a_B.
C22_Witness ==
    /\ pc = "attrs"
    /\ Len(applied) = 2
    /\ applied[1] = ClapAttr("NameLitStr", "about", <<"c", "D">>, NoFunc)
    /\ applied[2] = ClapAttr("NameExpr", "name", ExprValue, NoFunc)
    /\ res.name = <<"a", "_", "B">>
    /\ res.methods = << Method("about", StrTokens(<<"c", "D">>)),
                        Method("name", ExprTokens(ExprValue)) >>

====
